---- MODULE Spec2Model ----
(***************************************************************************)
(* Model of the audio synthesis and stitching pipeline of newsroom         *)
(* (src/newsroom/audio.py, with the voice resolution of                    *)
(* src/newsroom/config.py).                                                *)
(*                                                                         *)
(* A Python str is a sequence of one-character strings.  The module holds  *)
(* several specifications over one set of variables:                       *)
(*   SpecChunk     split_into_chunks applied to bounded inputs             *)
(*   SpecAdjacent  _get_adjacent_text applied to bounded inputs            *)
(*   SpecConcat    concat_final applied to bounded artifact lists and      *)
(*                 file systems                                            *)
(*   SpecParse     parse_script applied to bounded raw scripts             *)
(*   SpecResolve   resolve_voice_id applied to the speakers of two turns   *)
(*   Spec          _run_pipeline from generate_audio on: the turns and     *)
(*                 chunks of a script synthesized one by one, then         *)
(*                 concat_final on the artifacts                           *)
(*                                                                         *)
(* A file system is a function from the paths of the existing files to     *)
(* their contents; the content of an audio file is a sequence of tokens,   *)
(* that of a concat manifest the sequence of the paths it lists.           *)
(***************************************************************************)
EXTENDS Integers, Sequences, FiniteSets, TLC

VARIABLES
    split_text,      \* split_into_chunks: the argument text
    split_limit,     \* split_into_chunks: the argument limit
    split_result,    \* split_into_chunks: <<>> before the call, <<chunks>> after it
    raw_script,      \* parse_script: the argument text
    script,          \* the Script: [format, segments], a segment is [index, speaker, text]
    config,          \* the NewsroomConfig: [voices, model, output_format]
    adj_idx,         \* _get_adjacent_text: the argument idx
    adj_voice,       \* _get_adjacent_text: the argument voice_id
    adj_result,      \* _get_adjacent_text: <<>> before the call, <<prev_text, next_text>> after
    resolve_role,    \* resolve_voice_id: the speaker of the turn being synthesized
    resolve_other,   \* resolve_voice_id: the speaker of a candidate turn for its context
    resolve_result,  \* <<>> before the calls, <<[voice_id, other_voice_id, matched]>> after
    pc,              \* where _run_pipeline stands
    audio_files,     \* concat_final: the argument audio_files, a list of GeneratedAudio
    fs,              \* the file system
    ffmpeg_runs,     \* the ffmpeg invocations so far: [inputs, output, ok]
    error,           \* "" or the exception that ended the run
    seg_pos,         \* generate_audio: the segments before this position (from 0) are done
    voice_id,        \* generate_audio: locals of the current segment
    prev_text,
    next_text,
    prev_ids,
    chunks,
    ci,              \* generate_audio: the chunks before this index (from 0) are done
    chunk_files,
    voice_request_ids,  \* generate_audio: voice id -> list of request ids
    results,         \* generate_audio: the GeneratedAudio records so far
    calls,           \* the synthesis calls so far: [pos, ci, of, voice_id, request_id, ok],
                     \* the call for chunk ci of `of` of the segment at position pos
    request          \* the arguments of the latest synthesis call, <<>> before the first

chunkVars == <<split_text, split_limit, split_result>>
adjVars == <<adj_idx, adj_voice, adj_result>>
resolveVars == <<resolve_role, resolve_other, resolve_result>>
concatVars == <<pc, audio_files, fs, ffmpeg_runs, error>>
segVars == <<voice_id, prev_text, next_text, prev_ids, chunks>>
genVars == <<seg_pos, segVars, ci, chunk_files, voice_request_ids, results, calls, request>>
vars == <<chunkVars, raw_script, script, config, adjVars, resolveVars, concatVars, genVars>>

(***************************************************************************)
(* Bounds of the model.                                                    *)
(***************************************************************************)
MaxLen == 5          \* longest text handed to split_into_chunks in SpecChunk
MaxLimit == 3        \* largest limit handed to split_into_chunks in SpecChunk
TrimMargin == 2      \* the margin over the limit that C2 allows a chunk
MaxTurns == 7        \* most turns of a script handed to _get_adjacent_text in SpecAdjacent
MaxArtifacts == 3    \* most artifacts handed to concat_final in SpecConcat
MaxScriptTurns == 2  \* most turns of a script run through the pipeline in Spec
MaxLines == 4        \* most lines of a raw script handed to parse_script in SpecParse

(***************************************************************************)
(* Strings.                                                                *)
(***************************************************************************)
\* Python's None for an optional value x, which is <<x>> when given
None == <<>>
Terminators == {".", "!", "?"}
Whitespace == {" ", "\n"}
\* the characters texts of SpecChunk are made of: a letter, a blank, a
\* sentence terminator and the two brackets of inline markup
Alphabet == {"a", " ", ".", "[", "]"}

\* str.strip(): the text without its leading and trailing whitespace, found
\* by scanning from both ends
RECURSIVE FirstSolid(_, _)
FirstSolid(s, i) ==
    IF i > Len(s) \/ s[i] \notin Whitespace THEN i ELSE FirstSolid(s, i + 1)

RECURSIVE LastSolid(_, _)
LastSolid(s, i) ==
    IF i < 1 \/ s[i] \notin Whitespace THEN i ELSE LastSolid(s, i - 1)

Strip(s) == SubSeq(s, FirstSolid(s, 1), LastSolid(s, Len(s)))

\* s[-n:] for n > 0
LastN(s, n) == IF Len(s) <= n THEN s ELSE SubSeq(s, Len(s) - n + 1, Len(s))
\* s[:n] for n >= 0
FirstN(s, n) == IF Len(s) <= n THEN s ELSE SubSeq(s, 1, n)

(***************************************************************************)
(* _split_sentences: the loop over the characters of the text.  The loop   *)
(* state is the pair (current, parts).                                     *)
(***************************************************************************)
SentenceStep(st, char) ==
    LET current == Append(st.current, char) IN
    IF char \in Terminators /\ Len(current) > 1
    THEN [current |-> <<>>, parts |-> Append(st.parts, current)]
    ELSE [current |-> current, parts |-> st.parts]

\* the iterations lo..hi of `for char in text`, in order, from loop state st.
\* The range is halved so that the evaluation depth stays logarithmic; the
\* test half = half has TLC evaluate the first half before the second starts.
RECURSIVE SentenceLoop(_, _, _, _)
SentenceLoop(text, lo, hi, st) ==
    IF lo > hi THEN st
    ELSE IF lo = hi THEN SentenceStep(st, text[lo])
    ELSE LET mid == (lo + hi) \div 2
             half == SentenceLoop(text, lo, mid, st)
         IN IF half = half THEN SentenceLoop(text, mid + 1, hi, half) ELSE half

\* every character a unit of its own
_split_sentences_chars(text) == [i \in 1..Len(text) |-> <<text[i]>>]

_split_sentences(text) ==
    LET st == SentenceLoop(text, 1, Len(text), [current |-> <<>>, parts |-> <<>>]) IN
    IF st.current # <<>> THEN Append(st.parts, st.current) ELSE st.parts

(***************************************************************************)
(* split_into_chunks: the loop over the sentences.  The loop state is the  *)
(* pair (current, chunks).                                                 *)
(***************************************************************************)
\* ChunkStep with the sentence that triggers a flush lost
ChunkStep_drop(st, sentence, limit) ==
    IF st.current # <<>> /\ Len(st.current) + Len(sentence) > limit
    THEN [current |-> <<>>, chunks |-> Append(st.chunks, Strip(st.current))]
    ELSE [current |-> st.current \o sentence, chunks |-> st.chunks]

ChunkStep(st, sentence, limit) ==
    IF st.current # <<>> /\ Len(st.current) + Len(sentence) > limit
    THEN [current |-> sentence, chunks |-> Append(st.chunks, Strip(st.current))]
    ELSE [current |-> st.current \o sentence, chunks |-> st.chunks]

RECURSIVE ChunkLoop(_, _, _, _, _)
ChunkLoop(sentences, lo, hi, st, limit) ==
    IF lo > hi THEN st
    ELSE IF lo = hi THEN ChunkStep(st, sentences[lo], limit)
    ELSE LET mid == (lo + hi) \div 2
             half == ChunkLoop(sentences, lo, mid, st, limit)
         IN IF half = half THEN ChunkLoop(sentences, mid + 1, hi, half, limit) ELSE half

\* split_into_chunks with the short text stripped like every other chunk
split_into_chunks_strip(text, limit) ==
    IF Len(text) <= limit THEN <<Strip(text)>>
    ELSE LET sentences == _split_sentences(text)
             st == ChunkLoop(sentences, 1, Len(sentences),
                             [current |-> <<>>, chunks |-> <<>>], limit)
             all == IF Strip(st.current) # <<>>
                    THEN Append(st.chunks, Strip(st.current))
                    ELSE st.chunks
         IN IF all # <<>> THEN all ELSE <<FirstN(text, limit)>>

split_into_chunks(text, limit) ==
    IF Len(text) <= limit THEN <<text>>
    ELSE LET sentences == _split_sentences(text)
             st == ChunkLoop(sentences, 1, Len(sentences),
                             [current |-> <<>>, chunks |-> <<>>], limit)
             all == IF Strip(st.current) # <<>>
                    THEN Append(st.chunks, Strip(st.current))
                    ELSE st.chunks
         IN IF all # <<>> THEN all ELSE <<FirstN(text, limit)>>

(***************************************************************************)
(* Configuration and voice resolution (src/newsroom/config.py).            *)
(***************************************************************************)
VoiceConfig ==
    [anchor    |-> "cjVigY5qzO86Huf0OWal",
     host      |-> "cjVigY5qzO86Huf0OWal",
     cohost    |-> "TX3LPaxmHKxFdv7VOQHJ",
     moderator |-> "cjVigY5qzO86Huf0OWal",
     sidea     |-> "TX3LPaxmHKxFdv7VOQHJ",
     sideb     |-> "EXAVITQu4vr4xnSAxGW1",
     narrator  |-> "nPczCjz82KWdKScP46A1"]

NewsroomConfig ==
    [voices |-> VoiceConfig, model |-> "eleven_v3", output_format |-> "mp3_44100_128"]

\* VOICE_MAP with the cohost of a podcast on the field of the host
VOICE_MAP_crossed ==
    [news      |-> [anchor |-> "anchor"],
     podcast   |-> [host |-> "host", cohost |-> "host"],
     debate    |-> [moderator |-> "moderator", sidea |-> "sidea", sideb |-> "sideb"],
     narrative |-> [narrator |-> "narrator"]]

VOICE_MAP ==
    [news      |-> [anchor |-> "anchor"],
     podcast   |-> [host |-> "host", cohost |-> "cohost"],
     debate    |-> [moderator |-> "moderator", sidea |-> "sidea", sideb |-> "sideb"],
     narrative |-> [narrator |-> "narrator"]]

SPEAKER_ALIASES ==
    ("anchor" :> "anchor") @@ ("host" :> "host") @@ ("co-host" :> "cohost") @@
    ("cohost" :> "cohost") @@ ("moderator" :> "moderator") @@ ("side-a" :> "sidea") @@
    ("sidea" :> "sidea") @@ ("side-b" :> "sideb") @@ ("sideb" :> "sideb") @@
    ("narrator" :> "narrator")

\* str.lower() on the speaker labels of the model: the only labels with an
\* upper-case letter are the keys of UpperCaseLabels
UpperCaseLabels == ("Host" :> "host") @@ ("Co-Host" :> "co-host")
Lower(role) == IF role \in DOMAIN UpperCaseLabels THEN UpperCaseLabels[role] ELSE role

\* dict.get(key, default)
Get(dict, key, default) == IF key \in DOMAIN dict THEN dict[key] ELSE default

resolve_voice_id(role, format_name, cfg) ==
    LET normalized == Get(SPEAKER_ALIASES, Lower(role), Lower(role))
        voice_field == Get(Get(VOICE_MAP, format_name, <<>>), normalized, "")
    IN IF voice_field # ""
       THEN Get(cfg.voices, voice_field, cfg.voices.anchor)
       ELSE Get(cfg.voices, normalized, cfg.voices.anchor)

(***************************************************************************)
(* _get_adjacent_text.  segments[i] of the code is segments[i + 1] here.   *)
(***************************************************************************)
CONTEXT_CHARS == 200   \* the 200 of seg.text[-200:] and seg.text[:200]
LOOK_STEPS == 4        \* the 4 of idx - 4 and idx + 4: the ranges stop short of it

Max2(a, b) == IF a >= b THEN a ELSE b
Min2(a, b) == IF a <= b THEN a ELSE b

\* for i in range(i, stop, -1): the text of the first same-voice segment
RECURSIVE LookBackward(_, _, _, _, _)
LookBackward(segments, i, stop, voice, cfg) ==
    IF i <= stop THEN <<>>
    ELSE IF resolve_voice_id(segments[i + 1].speaker, "", cfg) = voice
         THEN LastN(segments[i + 1].text, CONTEXT_CHARS)
         ELSE LookBackward(segments, i - 1, stop, voice, cfg)

\* for i in range(i, stop): the text of the first same-voice segment
RECURSIVE LookForward(_, _, _, _, _)
LookForward(segments, i, stop, voice, cfg) ==
    IF i >= stop THEN <<>>
    ELSE IF resolve_voice_id(segments[i + 1].speaker, "", cfg) = voice
         THEN FirstN(segments[i + 1].text, CONTEXT_CHARS)
         ELSE LookForward(segments, i + 1, stop, voice, cfg)

\* _get_adjacent_text with the window one turn wider on both sides
_get_adjacent_text_wide(segments, idx, voice, cfg) ==
    <<LookBackward(segments, idx - 1, Max2(idx - LOOK_STEPS - 1, -1), voice, cfg),
      LookForward(segments, idx + 1, Min2(idx + LOOK_STEPS + 1, Len(segments)), voice, cfg)>>

_get_adjacent_text(segments, idx, voice, cfg) ==
    <<LookBackward(segments, idx - 1, Max2(idx - LOOK_STEPS, -1), voice, cfg),
      LookForward(segments, idx + 1, Min2(idx + LOOK_STEPS, Len(segments)), voice, cfg)>>

(***************************************************************************)
(* Files and ffmpeg.                                                       *)
(***************************************************************************)
Exists(files, path) == path \in DOMAIN files
\* Path.write_text / Path.write_bytes: create or overwrite
WriteFile(files, path, content) ==
    [q \in DOMAIN files \cup {path} |-> IF q = path THEN content ELSE files[q]]
\* Path.unlink(missing_ok=True)
Unlink(files, path) == [q \in DOMAIN files \ {path} |-> files[q]]

\* f"{n:03d}"
Pad3(n) ==
    IF n < 10 THEN "00" \o ToString(n)
    ELSE IF n < 100 THEN "0" \o ToString(n) ELSE ToString(n)
\* audio_dir / f"{seg.index:03d}_{seg.speaker}.mp3"
SegmentPath(index, speaker) == "audio/" \o Pad3(index) \o "_" \o speaker \o ".mp3"
\* audio_dir / f"{seg.index:03d}_{seg.speaker}_chunk{ci}.mp3"
ChunkPath(index, speaker, n) ==
    "audio/" \o Pad3(index) \o "_" \o speaker \o "_chunk" \o ToString(n) \o ".mp3"
\* run_dir / "final.mp3" and, in concat_final, output.parent / "concat.txt"
FinalPath == "final.mp3"
FinalManifestPath == "concat.txt"

\* the contents of the files of a list, one after the other
RECURSIVE Concatenation(_, _)
Concatenation(files, paths) ==
    IF paths = <<>> THEN <<>>
    ELSE files[Head(paths)] \o Concatenation(files, Tail(paths))

\* ffmpeg -y -f concat -safe 0 -i manifest -c copy output, run with
\* check=True: the outcomes [fs, inputs, ok] the process can have.  It
\* succeeds only when every file the manifest lists exists; it can fail for
\* reasons of its own, leaving no output or a partial one.
ffmpeg_concat(files, manifest, output) ==
    LET inputs == files[manifest] IN
    {[fs |-> WriteFile(files, output, Concatenation(files, inputs)), inputs |-> inputs, ok |-> TRUE] :
        x \in IF \A i \in 1..Len(inputs) : Exists(files, inputs[i]) THEN {1} ELSE {}}
    \cup {[fs |-> files, inputs |-> inputs, ok |-> FALSE],
          [fs |-> WriteFile(files, output, <<"partial">>), inputs |-> inputs, ok |-> FALSE]}

(***************************************************************************)
(* concat_final.                                                           *)
(***************************************************************************)
\* sorted(audio_files, key=lambda a: a.segment_index): a stable sort
RECURSIVE InsertByIndex(_, _)
InsertByIndex(sorted, a) ==
    IF sorted = <<>> THEN <<a>>
    ELSE IF sorted[Len(sorted)].segment_index <= a.segment_index
         THEN Append(sorted, a)
         ELSE Append(InsertByIndex(SubSeq(sorted, 1, Len(sorted) - 1), a), sorted[Len(sorted)])

RECURSIVE SortFrom(_, _, _)
SortFrom(list, i, sorted) ==
    IF i > Len(list) THEN sorted
    ELSE SortFrom(list, i + 1, InsertByIndex(sorted, list[i]))

\* the list left as it is
SortedBySegmentIndex_unsorted(list) == list

SortedBySegmentIndex(list) == SortFrom(list, 1, <<>>)

\* every path, existing or not
ExistingPaths_all(files, sorted_files) ==
    [i \in 1..Len(sorted_files) |-> sorted_files[i].file_path]

\* [a.file_path for a in sorted_files if a.file_path.exists()]
ExistingPaths(files, sorted_files) ==
    LET paths == [i \in 1..Len(sorted_files) |-> sorted_files[i].file_path]
    IN SelectSeq(paths, LAMBDA path : Exists(files, path))

NoAudioFiles == "RuntimeError: No audio files to concatenate"
CalledProcessError == "CalledProcessError"

\* concat_final with the manifest written before the list is tested
concat_final_write_first(files, list, output) ==
    LET sorted_files == SortedBySegmentIndex(list)
        file_paths == ExistingPaths(files, sorted_files)
        written == WriteFile(files, FinalManifestPath, file_paths)
    IN IF file_paths = <<>>
       THEN {[fs |-> written, runs |-> <<>>, error |-> NoAudioFiles]}
       ELSE {[fs |-> o.fs,
              runs |-> <<[inputs |-> o.inputs, output |-> output, ok |-> o.ok]>>,
              error |-> IF o.ok THEN "" ELSE CalledProcessError] :
                o \in ffmpeg_concat(written, FinalManifestPath, output)}

\* concat_final(audio_files, output) on the file system `files`: the outcomes
\* [fs, runs, error] it can have, runs being the ffmpeg invocations made
concat_final(files, list, output) ==
    LET sorted_files == SortedBySegmentIndex(list)
        file_paths == ExistingPaths(files, sorted_files)
    IN IF file_paths = <<>>
       THEN {[fs |-> files, runs |-> <<>>, error |-> NoAudioFiles]}
       ELSE LET written == WriteFile(files, FinalManifestPath, file_paths) IN
            {[fs |-> o.fs,
              runs |-> <<[inputs |-> o.inputs, output |-> output, ok |-> o.ok]>>,
              error |-> IF o.ok THEN "" ELSE CalledProcessError] :
                o \in ffmpeg_concat(written, FinalManifestPath, output)}

\* _run_pipeline: concat_final(audio_files, final_path)
ConcatFinal ==
    /\ pc = "concat_final"
    /\ \E o \in concat_final(fs, audio_files, FinalPath) :
            /\ fs' = o.fs
            /\ ffmpeg_runs' = ffmpeg_runs \o o.runs
            /\ error' = o.error
            /\ pc' = IF o.error = "" THEN "done" ELSE "failed"
    /\ UNCHANGED <<chunkVars, raw_script, script, config, adjVars, resolveVars, audio_files, genVars>>

(***************************************************************************)
(* parse_script (src/newsroom/scriptgen.py).                               *)
(***************************************************************************)
UpperLetters ==
    <<"A", "B", "C", "D", "E", "F", "G", "H", "I", "J", "K", "L", "M",
      "N", "O", "P", "Q", "R", "S", "T", "U", "V", "W", "X", "Y", "Z">>
LowerLetters ==
    <<"a", "b", "c", "d", "e", "f", "g", "h", "i", "j", "k", "l", "m",
      "n", "o", "p", "q", "r", "s", "t", "u", "v", "w", "x", "y", "z">>
Digits == {"0", "1", "2", "3", "4", "5", "6", "7", "8", "9"}
IsUpper(c) == \E i \in 1..Len(UpperLetters) : UpperLetters[i] = c
\* the class [A-Z0-9 _-] of _LINE_RE
SpeakerChars ==
    {UpperLetters[i] : i \in 1..Len(UpperLetters)} \cup Digits \cup {" ", "_", "-"}

\* str.lower() and str.replace("_", "-"), character by character
LowerChar(c) ==
    IF IsUpper(c) THEN LowerLetters[CHOOSE i \in 1..Len(UpperLetters) : UpperLetters[i] = c]
    ELSE c
LowerStr(s) == [i \in 1..Len(s) |-> LowerChar(s[i])]
ReplaceUnderscores(s) == [i \in 1..Len(s) |-> IF s[i] = "_" THEN "-" ELSE s[i]]
\* the characters of a text as one label
RECURSIVE Join(_)
Join(s) == IF s = <<>> THEN "" ELSE Head(s) \o Join(Tail(s))

normalize_speaker(raw) ==
    LET cleaned == Join(ReplaceUnderscores(LowerStr(Strip(raw))))
    IN Get(SPEAKER_ALIASES, cleaned, cleaned)

\* the first position from i on whose character is not in S (SkipIn), is
\* in S (SkipTo); Len(text) + 1 when there is none
RECURSIVE SkipIn(_, _, _)
SkipIn(text, i, S) ==
    IF i > Len(text) \/ text[i] \notin S THEN i ELSE SkipIn(text, i + 1, S)
RECURSIVE SkipTo(_, _, _)
SkipTo(text, i, S) ==
    IF i > Len(text) \/ text[i] \in S THEN i ELSE SkipTo(text, i + 1, S)
\* the last position down from i whose character is no newline, 0 when none
RECURSIVE LastOnLine(_, _, _)
LastOnLine(text, i, low) ==
    IF i < low THEN 0
    ELSE IF text[i] # "\n" THEN i ELSE LastOnLine(text, i - 1, low)

\* _LINE_RE, ^(?P<speaker>[A-Z][A-Z0-9 _-]+?):\s*(?P<text>.+), tried at the
\* line start pos: None, or <<[speaker, text, last]>> with the two groups and
\* the position of the last character matched.  The speaker is the run of
\* class characters up to the first colon; \s* takes all the white space
\* after it, newlines included, and gives back only when nothing is left
\* for the text, which then is the last character that is no newline.
_LINE_RE_match(text, pos) ==
    IF pos > Len(text) \/ ~IsUpper(text[pos]) THEN None
    ELSE LET colon == SkipIn(text, pos + 1, SpeakerChars)
             solid == SkipIn(text, colon + 1, Whitespace)
             eol == SkipTo(text, solid, {"\n"})
             back == LastOnLine(text, Len(text), colon + 1)
         IN IF colon = pos + 1 \/ colon > Len(text) \/ text[colon] # ":" THEN None
            ELSE IF solid <= Len(text)
                 THEN <<[speaker |-> SubSeq(text, pos, colon - 1),
                         text |-> SubSeq(text, solid, eol - 1), last |-> eol - 1]>>
            ELSE IF back # 0
                 THEN <<[speaker |-> SubSeq(text, pos, colon - 1),
                         text |-> <<text[back]>>, last |-> back]>>
            ELSE None

\* _LEADING_TAG_RE, ^\[(?P<tag>[^\]]+)\]\s*, matched at the start of a line
\* text: the tag, "" (here <<>>) when there is no match
LeadingTag(line_text) ==
    IF line_text = <<>> \/ line_text[1] # "[" THEN <<>>
    ELSE LET close == SkipTo(line_text, 2, {"]"})
         IN IF close > Len(line_text) \/ close = 2 THEN <<>>
            ELSE SubSeq(line_text, 2, close - 1)

\* the start of the next line after position pos, Len(text) + 1 when none
NextLineStart(text, pos) == SkipTo(text, pos, {"\n"}) + 1

\* the body of `for match in _LINE_RE.finditer(text)` that appends a
\* segment without moving idx on
ParseStep_same(st, text, pos, m) ==
    LET line_text == Strip(m.text) IN
    IF line_text = <<>> THEN st
    ELSE [idx |-> st.idx,
          segments |-> Append(st.segments,
                              [index |-> st.idx, speaker |-> normalize_speaker(m.speaker),
                               text |-> line_text, emotion_tag |-> LeadingTag(line_text),
                               raw_text |-> SubSeq(text, pos, m.last)])]

\* the body of `for match in _LINE_RE.finditer(text)` for the match m found
\* at pos; the loop state is the pair (idx, segments)
ParseStep(st, text, pos, m) ==
    LET line_text == Strip(m.text) IN
    IF line_text = <<>> THEN st
    ELSE [idx |-> st.idx + 1,
          segments |-> Append(st.segments,
                              [index |-> st.idx, speaker |-> normalize_speaker(m.speaker),
                               text |-> line_text, emotion_tag |-> LeadingTag(line_text),
                               raw_text |-> SubSeq(text, pos, m.last)])]

\* finditer from the line start pos on: a line that does not match is passed
\* over, the search goes on at the next line start after a match
RECURSIVE ParseFrom(_, _, _)
ParseFrom(text, pos, st) ==
    IF pos > Len(text) THEN st
    ELSE LET m == _LINE_RE_match(text, pos) IN
         IF m = None THEN ParseFrom(text, NextLineStart(text, pos), st)
         ELSE ParseFrom(text, NextLineStart(text, m[1].last), ParseStep(st, text, pos, m[1]))

parse_script(text, fmt) ==
    [format |-> fmt, segments |-> ParseFrom(text, 1, [idx |-> 0, segments |-> <<>>]).segments]

\* a call of parse_script, as generate_script and the script command make it
ParseScript ==
    /\ pc = "parse_script"
    /\ \E fmt \in DOMAIN VOICE_MAP : script' = parse_script(raw_script, fmt)
    /\ pc' = "parsed"
    /\ UNCHANGED <<chunkVars, raw_script, config, adjVars, resolveVars, audio_files, fs, ffmpeg_runs,
                   error, genVars>>

(***************************************************************************)
(* generate_audio and _generate_segment.                                   *)
(***************************************************************************)
CHUNK_LIMIT == 4000
STITCH_IDS == 3        \* the 3 of voice_request_ids[voice_id][-3:]
ApiError == "ApiError" \* what a failed text_to_speech.convert raises

\* `x or None` for an argument that is a str or a list: None, or <<x>>
OrNone(x) == IF x = <<>> THEN None ELSE <<x>>

\* defaultdict(list): reading a missing key gives [] and stores it
Lookup(dict, key) == IF key \in DOMAIN dict THEN dict[key] ELSE <<>>
Store(dict, key, value) ==
    [k \in DOMAIN dict \cup {key} |-> IF k = key THEN value ELSE dict[k]]

\* output.parent / f"{output.stem}_concat.txt" for the output of a segment
SegmentManifestPath(index, speaker) ==
    "audio/" \o Pad3(index) \o "_" \o speaker \o "_concat.txt"

\* the arguments handed on whatever the model
ConvertArguments_keep(text, voice, model_id, output_format, before, after, ids) ==
    [text |-> text, voice_id |-> voice, model_id |-> model_id,
     output_format |-> output_format,
     previous_text |-> before, next_text |-> after, previous_request_ids |-> ids]

\* the arguments _generate_segment hands to text_to_speech.convert
ConvertArguments(text, voice, model_id, output_format, before, after, ids) ==
    LET plain == model_id = "eleven_v3" IN
    [text |-> text, voice_id |-> voice, model_id |-> model_id,
     output_format |-> output_format,
     previous_text |-> IF plain THEN None ELSE before,
     next_text |-> IF plain THEN None ELSE after,
     previous_request_ids |-> IF plain THEN None ELSE ids]

\* _concat_files(files, output) for the chunk files of a segment on the file
\* system `files`: the outcomes [fs, runs, error] it can have
_concat_files(files, list, index, speaker) ==
    LET concat_txt == SegmentManifestPath(index, speaker)
        written == WriteFile(files, concat_txt, list)
    IN {[fs |-> Unlink(o.fs, concat_txt),
         runs |-> <<[inputs |-> o.inputs, output |-> SegmentPath(index, speaker), ok |-> o.ok]>>,
         error |-> IF o.ok THEN "" ELSE CalledProcessError] :
           o \in ffmpeg_concat(written, concat_txt, SegmentPath(index, speaker))}

\* the chunk files left where they are
UnlinkAll_keep(files, paths) == files

\* for cf in chunk_files: cf.unlink(missing_ok=True)
RECURSIVE UnlinkAll(_, _)
UnlinkAll(files, paths) ==
    IF paths = <<>> THEN files ELSE UnlinkAll(Unlink(files, Head(paths)), Tail(paths))

Segment == script.segments[seg_pos + 1]

\* the head of `for seg in script.segments` with a segment left: lines 101-108
NextSegment ==
    /\ pc = "for_seg"
    /\ seg_pos < Len(script.segments)
    /\ LET v == resolve_voice_id(Segment.speaker, script.format, config)
           adjacent == _get_adjacent_text(script.segments, Segment.index, v, config)
       IN /\ voice_id' = v
          /\ prev_text' = adjacent[1]
          /\ next_text' = adjacent[2]
          /\ prev_ids' = LastN(Lookup(voice_request_ids, v), STITCH_IDS)
          /\ voice_request_ids' = Store(voice_request_ids, v, Lookup(voice_request_ids, v))
    /\ chunks' = split_into_chunks(Segment.text, CHUNK_LIMIT)
    /\ chunk_files' = <<>>
    /\ ci' = 0
    /\ pc' = "for_chunk"
    /\ UNCHANGED <<chunkVars, raw_script, script, config, adjVars, resolveVars, audio_files, fs, ffmpeg_runs,
                   error, seg_pos, results, calls, request>>

\* the path and the request of the chunk at index ci: lines 111-130
OutPath ==
    IF Len(chunks) > 1 THEN ChunkPath(Segment.index, Segment.speaker, ci)
    ELSE SegmentPath(Segment.index, Segment.speaker)

\* every chunk sent with the context of its turn
ChunkRequest_turn ==
    ConvertArguments(chunks[ci + 1], voice_id, config.model, config.output_format,
                     OrNone(prev_text), OrNone(next_text), OrNone(prev_ids))

ChunkRequest ==
    LET chunk_prev == IF ci > 0 THEN LastN(chunks[ci], CONTEXT_CHARS) ELSE prev_text
        chunk_next == IF ci < Len(chunks) - 1 THEN FirstN(chunks[ci + 2], CONTEXT_CHARS)
                      ELSE next_text
    IN ConvertArguments(chunks[ci + 1], voice_id, config.model, config.output_format,
                        OrNone(chunk_prev), OrNone(chunk_next), OrNone(prev_ids))

\* a pass that sends the request of its chunk twice
SynthesizeChunk_twice ==
    /\ pc = "for_chunk"
    /\ ci < Len(chunks)
    /\ \E request_id \in {"", "r" \o ToString(Len(calls) + 1)} :
          LET call == [pos |-> seg_pos, ci |-> ci, of |-> Len(chunks), voice_id |-> voice_id,
                       request_id |-> request_id, ok |-> TRUE]
          IN /\ calls' = Append(Append(calls, call), call)
             /\ voice_request_ids' =
                   IF request_id # ""
                   THEN Store(voice_request_ids, voice_id,
                              Append(Lookup(voice_request_ids, voice_id), request_id))
                   ELSE voice_request_ids
    /\ request' = ChunkRequest
    /\ fs' = WriteFile(fs, OutPath, <<"tts" \o ToString(Len(calls) + 1)>>)
    /\ chunk_files' = Append(chunk_files, OutPath)
    /\ ci' = ci + 1
    /\ UNCHANGED <<chunkVars, raw_script, script, config, adjVars, resolveVars, pc, audio_files, ffmpeg_runs,
                   error, seg_pos, segVars, results>>

\* a failed pass that is swallowed: the loop goes on with the next chunk
SynthesizeChunkFails_swallow ==
    /\ pc = "for_chunk"
    /\ ci < Len(chunks)
    /\ calls' = Append(calls, [pos |-> seg_pos, ci |-> ci, of |-> Len(chunks), voice_id |-> voice_id,
                               request_id |-> "", ok |-> FALSE])
    /\ request' = ChunkRequest
    /\ error' = ApiError
    /\ chunk_files' = Append(chunk_files, OutPath)
    /\ ci' = ci + 1
    /\ UNCHANGED <<chunkVars, raw_script, script, config, adjVars, resolveVars, pc, audio_files, fs,
                   ffmpeg_runs, seg_pos, segVars, voice_request_ids, results>>

\* one pass of `for ci, chunk_text in enumerate(chunks)` whose synthesis
\* call succeeds: the service answers with a fresh request id or with no
\* request-id header (""), the audio is written, the id recorded
SynthesizeChunk ==
    /\ pc = "for_chunk"
    /\ ci < Len(chunks)
    /\ \E request_id \in {"", "r" \o ToString(Len(calls) + 1)} :
          /\ calls' = Append(calls, [pos |-> seg_pos, ci |-> ci, of |-> Len(chunks), voice_id |-> voice_id,
                                     request_id |-> request_id, ok |-> TRUE])
          /\ voice_request_ids' =
                IF request_id # ""
                THEN Store(voice_request_ids, voice_id,
                           Append(Lookup(voice_request_ids, voice_id), request_id))
                ELSE voice_request_ids
    /\ request' = ChunkRequest
    /\ fs' = WriteFile(fs, OutPath, <<"tts" \o ToString(Len(calls) + 1)>>)
    /\ chunk_files' = Append(chunk_files, OutPath)
    /\ ci' = ci + 1
    /\ UNCHANGED <<chunkVars, raw_script, script, config, adjVars, resolveVars, pc, audio_files, ffmpeg_runs,
                   error, seg_pos, segVars, results>>

\* the same pass when text_to_speech.convert raises: the exception leaves
\* generate_audio and _run_pipeline
SynthesizeChunkFails ==
    /\ pc = "for_chunk"
    /\ ci < Len(chunks)
    /\ calls' = Append(calls, [pos |-> seg_pos, ci |-> ci, of |-> Len(chunks), voice_id |-> voice_id,
                               request_id |-> "", ok |-> FALSE])
    /\ request' = ChunkRequest
    /\ error' = ApiError
    /\ pc' = "failed"
    /\ UNCHANGED <<chunkVars, raw_script, script, config, adjVars, resolveVars, audio_files, fs, ffmpeg_runs,
                   seg_pos, segVars, ci, chunk_files, voice_request_ids, results>>

\* results.append(GeneratedAudio(...)): lines 145-150
Recorded(final_path) ==
    Append(results,
           [segment_index |-> Segment.index,
            file_path |-> final_path,
            request_id |-> IF Lookup(voice_request_ids, voice_id) # <<>>
                           THEN Lookup(voice_request_ids, voice_id)
                                    [Len(Lookup(voice_request_ids, voice_id))]
                           ELSE "",
            voice_id |-> voice_id])

\* the end of a segment of one chunk: lines 142-150
FinalizeSingle ==
    /\ pc = "for_chunk"
    /\ ci = Len(chunks)
    /\ Len(chunk_files) <= 1
    /\ results' = Recorded(chunk_files[1])
    /\ seg_pos' = seg_pos + 1
    /\ pc' = "for_seg"
    /\ UNCHANGED <<chunkVars, raw_script, script, config, adjVars, resolveVars, audio_files, fs, ffmpeg_runs,
                   error, segVars, ci, chunk_files, voice_request_ids, calls, request>>

\* the end of a segment of several chunks, ffmpeg succeeding: lines 137-139
MergeChunks ==
    /\ pc = "for_chunk"
    /\ ci = Len(chunks)
    /\ Len(chunk_files) > 1
    /\ \E o \in _concat_files(fs, chunk_files, Segment.index, Segment.speaker) :
          /\ o.error = ""
          /\ fs' = o.fs
          /\ ffmpeg_runs' = ffmpeg_runs \o o.runs
    /\ pc' = "unlink_chunks"
    /\ UNCHANGED <<chunkVars, raw_script, script, config, adjVars, resolveVars, audio_files, error, genVars>>

\* the environment between ffmpeg's exit and the unlink loop: a chunk file
\* is removed by something else, the case missing_ok=True is written for
ChunkFileVanishes ==
    /\ pc = "unlink_chunks"
    /\ \E k \in 1..Len(chunk_files) :
          /\ Exists(fs, chunk_files[k])
          /\ fs' = Unlink(fs, chunk_files[k])
    /\ UNCHANGED <<chunkVars, raw_script, script, config, adjVars, resolveVars, pc, audio_files,
                   ffmpeg_runs, error, genVars>>

\* the unlink loop and the artifact of a segment of several chunks: lines 140-150
FinalizeMerged ==
    /\ pc = "unlink_chunks"
    /\ fs' = UnlinkAll(fs, chunk_files)
    /\ results' = Recorded(SegmentPath(Segment.index, Segment.speaker))
    /\ seg_pos' = seg_pos + 1
    /\ pc' = "for_seg"
    /\ UNCHANGED <<chunkVars, raw_script, script, config, adjVars, resolveVars, audio_files, ffmpeg_runs,
                   error, segVars, ci, chunk_files, voice_request_ids, calls, request>>

\* a failed merge that removes what the run had written
FinalizeMergeFails_rollback ==
    /\ pc = "for_chunk"
    /\ ci = Len(chunks)
    /\ Len(chunk_files) > 1
    /\ \E o \in _concat_files(fs, chunk_files, Segment.index, Segment.speaker) :
          /\ o.error # ""
          /\ fs' = <<>>
          /\ ffmpeg_runs' = ffmpeg_runs \o o.runs
          /\ error' = o.error
    /\ pc' = "failed"
    /\ UNCHANGED <<chunkVars, raw_script, script, config, adjVars, resolveVars, audio_files, seg_pos, segVars, ci,
                   chunk_files, voice_request_ids, results, calls, request>>

\* the same when ffmpeg fails: the exception leaves generate_audio after
\* _concat_files has removed its manifest
FinalizeMergeFails ==
    /\ pc = "for_chunk"
    /\ ci = Len(chunks)
    /\ Len(chunk_files) > 1
    /\ \E o \in _concat_files(fs, chunk_files, Segment.index, Segment.speaker) :
          /\ o.error # ""
          /\ fs' = o.fs
          /\ ffmpeg_runs' = ffmpeg_runs \o o.runs
          /\ error' = o.error
    /\ pc' = "failed"
    /\ UNCHANGED <<chunkVars, raw_script, script, config, adjVars, resolveVars, audio_files, seg_pos, segVars, ci,
                   chunk_files, voice_request_ids, results, calls, request>>

\* `return results`, and _run_pipeline going on to concat_final
ReturnResults ==
    /\ pc = "for_seg"
    /\ seg_pos = Len(script.segments)
    /\ audio_files' = results
    /\ pc' = "concat_final"
    /\ UNCHANGED <<chunkVars, raw_script, script, config, adjVars, resolveVars, fs, ffmpeg_runs, error, genVars>>

(***************************************************************************)
(* SpecChunk: split_into_chunks applied once to every text over Alphabet   *)
(* of length at most MaxLen and every limit in 1..MaxLimit.                *)
(***************************************************************************)
RECURSIVE TextsOfLen(_)
TextsOfLen(n) ==
    IF n = 0 THEN {<<>>}
    ELSE {Append(t, c) : t \in TextsOfLen(n - 1), c \in Alphabet}

Texts == UNION {TextsOfLen(n) : n \in 0..MaxLen}

\* the variables of split_into_chunks when a specification does not call it
IdleChunk == split_text = <<>> /\ split_limit = 0 /\ split_result = <<>>
\* the variables of _get_adjacent_text when a specification does not call it
IdleAdjacent == adj_idx = 0 /\ adj_voice = "" /\ adj_result = <<>>
\* the script and the configuration when a specification has none
NoScript == script = [format |-> "", segments |-> <<>>] /\ config = NewsroomConfig
\* the variables of resolve_voice_id when a specification does not record its calls
IdleResolve == resolve_role = "" /\ resolve_other = "" /\ resolve_result = <<>>
\* the argument of parse_script when a specification does not call it
IdleParse == raw_script = <<>>
\* the variables of the pipeline when a specification does not run it
IdleConcat ==
    pc = "idle" /\ audio_files = <<>> /\ fs = <<>> /\ ffmpeg_runs = <<>> /\ error = ""
\* the variables of generate_audio before it runs and when it never does
IdleGenerate ==
    /\ seg_pos = 0 /\ ci = 0
    /\ voice_id = "" /\ prev_text = <<>> /\ next_text = <<>> /\ prev_ids = <<>>
    /\ chunks = <<>> /\ chunk_files = <<>>
    /\ voice_request_ids = <<>>
    /\ results = <<>> /\ calls = <<>> /\ request = <<>>

InitChunk ==
    /\ split_text \in Texts
    /\ split_limit \in 1..MaxLimit
    /\ split_result = <<>>
    /\ NoScript
    /\ IdleAdjacent
    /\ IdleConcat
    /\ IdleGenerate
    /\ IdleResolve
    /\ IdleParse

CallSplitIntoChunks ==
    /\ split_result = <<>>
    /\ split_result' = <<split_into_chunks(split_text, split_limit)>>
    /\ UNCHANGED <<split_text, split_limit, raw_script, script, config, adjVars, resolveVars, concatVars, genVars>>

NextChunk == CallSplitIntoChunks

SpecChunk == InitChunk /\ [][NextChunk]_vars

(***************************************************************************)
(* SpecAdjacent: _get_adjacent_text applied once to every script of at     *)
(* most MaxTurns turns over AdjSpeakers, every turn index and every voice  *)
(* of AdjVoices.  The texts are 0, 3, 200 and 203 characters long, so that *)
(* both sides of the 200-character cut occur; the text of a turn differs   *)
(* from that of its neighbours.                                            *)
(***************************************************************************)
\* "guest" is no role of the configuration: it resolves to the anchor's voice;
\* "Co-Host" resolves through str.lower() and the aliases to the cohost's
AdjSpeakers == {"guest", "Co-Host"}
AdjVoices == {VoiceConfig.host, VoiceConfig.cohost, VoiceConfig.narrator}
TurnLens == <<0, 3, CONTEXT_CHARS, CONTEXT_CHARS + 3>>
Letters == <<"a", "b", "c">>

\* the text of the turn at position j (from 0) of a script of the given shift
TurnText(j, shift) ==
    [i \in 1..TurnLens[((j + shift) % Len(TurnLens)) + 1] |-> Letters[((i + j) % Len(Letters)) + 1]]

AdjScripts ==
    {[format |-> "podcast",
      segments |-> [k \in 1..n |->
                      [index |-> k - 1, speaker |-> sp[k], text |-> TurnText(k - 1, shift)]]] :
        <<n, sp, shift>> \in
            UNION {{<<m, f, sh>> : f \in [1..m -> AdjSpeakers], sh \in 0..(Len(TurnLens) - 1)} :
                   m \in 1..MaxTurns}}

InitAdjacent ==
    /\ script \in AdjScripts
    /\ config = NewsroomConfig
    /\ adj_idx \in 0..(Len(script.segments) - 1)
    /\ adj_voice \in AdjVoices
    /\ adj_result = <<>>
    /\ IdleChunk
    /\ IdleConcat
    /\ IdleGenerate
    /\ IdleResolve
    /\ IdleParse

CallGetAdjacentText ==
    /\ adj_result = <<>>
    /\ adj_result' = _get_adjacent_text(script.segments, adj_idx, adj_voice, config)
    /\ UNCHANGED <<chunkVars, raw_script, script, config, adj_idx, adj_voice, resolveVars,
                   concatVars, genVars>>

NextAdjacent == CallGetAdjacentText

SpecAdjacent == InitAdjacent /\ [][NextAdjacent]_vars

(***************************************************************************)
(* SpecConcat: concat_final applied once to every list of at most          *)
(* MaxArtifacts artifacts with distinct segment_index values in any order, *)
(* on every file system in which any of their files exist.                 *)
(***************************************************************************)
\* the lists of the elements of S, each once
RECURSIVE ListsOf(_)
ListsOf(S) ==
    IF S = {} THEN {<<>>}
    ELSE UNION {{<<x>> \o p : p \in ListsOf(S \ {x})} : x \in S}

Artifact(i) ==
    [segment_index |-> i, file_path |-> SegmentPath(i, "host"),
     request_id |-> "", voice_id |-> VoiceConfig.host]

InitConcat ==
    /\ \E S \in SUBSET (0..(MaxArtifacts - 1)) :
          /\ audio_files \in {[k \in 1..Len(p) |-> Artifact(p[k])] : p \in ListsOf(S)}
          /\ \E E \in SUBSET S :
                fs = [path \in {SegmentPath(i, "host") : i \in E} |-> <<path>>]
    /\ pc = "concat_final"
    /\ ffmpeg_runs = <<>>
    /\ error = ""
    /\ NoScript
    /\ IdleChunk
    /\ IdleAdjacent
    /\ IdleGenerate
    /\ IdleResolve
    /\ IdleParse

NextConcat == ConcatFinal

SpecConcat == InitConcat /\ [][NextConcat]_vars

(***************************************************************************)
(* SpecParse: parse_script applied once to every raw script of at most     *)
(* MaxLines lines of ScriptLines, with and without a newline at its end.   *)
(***************************************************************************)
\* a turn; a turn with an alias label, a leading tag and blanks around its
\* text; a label with a blank text; a label with no text; a line whose
\* label is broken by a lower-case letter; a label of one letter; an empty
\* line
ScriptLines ==
    {<<"H", "O", ":", "a">>,
     <<"C", "O", "_", "H", "O", "S", "T", ":", " ", "[", "a", "]", " ">>,
     <<"H", "O", ":", " ">>,
     <<"H", "O", ":">>,
     <<"H", "b", ":", "a">>,
     <<"H", ":", "a">>,
     <<>>}

\* the lines joined by newlines
RECURSIVE JoinLines(_)
JoinLines(lines) ==
    IF lines = <<>> THEN <<>>
    ELSE IF Len(lines) = 1 THEN lines[1]
    ELSE lines[1] \o <<"\n">> \o JoinLines(Tail(lines))

\* the raw scripts of at most `most` lines
RawScripts(most) ==
    UNION {{JoinLines(lines) \o tail : lines \in [1..n -> ScriptLines], tail \in {<<>>, <<"\n">>}} :
           n \in 0..most}

InitParse ==
    /\ raw_script \in RawScripts(MaxLines)
    /\ NoScript
    /\ pc = "parse_script"
    /\ audio_files = <<>> /\ fs = <<>> /\ ffmpeg_runs = <<>> /\ error = ""
    /\ IdleChunk
    /\ IdleAdjacent
    /\ IdleGenerate
    /\ IdleResolve

NextParse == ParseScript

SpecParse == InitParse /\ [][NextParse]_vars

(***************************************************************************)
(* SpecResolve: the voice resolution of a turn and of a candidate turn for *)
(* its context, for every pair of speakers of ResolveRoles, every format   *)
(* and the configurations of ResolveConfigs.                               *)
(***************************************************************************)
\* the labels and roles of SPEAKER_ALIASES, the labels with upper-case
\* letters, and two labels that are no role of any format
ResolveRoles ==
    DOMAIN SPEAKER_ALIASES \cup DOMAIN UpperCaseLabels \cup {"guest", "ho"}
\* Format: the formats a Script can have
Formats == DOMAIN VOICE_MAP
\* the default configuration and one loaded from a config.yaml that gives
\* every role a voice of its own
ResolveConfigs ==
    {NewsroomConfig,
     [NewsroomConfig EXCEPT !.voices =
        [anchor |-> "voice-anchor", host |-> "voice-host", cohost |-> "voice-cohost",
         moderator |-> "voice-moderator", sidea |-> "voice-sidea", sideb |-> "voice-sideb",
         narrator |-> "voice-narrator"]]}

InitResolve ==
    /\ resolve_role \in ResolveRoles
    /\ resolve_other \in ResolveRoles
    /\ resolve_result = <<>>
    /\ script \in {[format |-> f, segments |-> <<>>] : f \in Formats}
    /\ config \in ResolveConfigs
    /\ IdleChunk
    /\ IdleAdjacent
    /\ IdleParse
    /\ IdleConcat
    /\ IdleGenerate

\* generate_audio resolving the speaker of a turn and that of another turn
\* with the format of the script (audio.py:101), and _get_adjacent_text
\* testing the other turn against the voice of the first (audio.py:66, 74)
CallResolveVoiceId ==
    /\ resolve_result = <<>>
    /\ LET v == resolve_voice_id(resolve_role, script.format, config)
       IN resolve_result' =
             <<[voice_id |-> v,
                other_voice_id |-> resolve_voice_id(resolve_other, script.format, config),
                matched |-> resolve_voice_id(resolve_other, "", config) = v]>>
    /\ UNCHANGED <<chunkVars, raw_script, script, config, adjVars, resolve_role, resolve_other,
                   concatVars, genVars>>

NextResolve == CallResolveVoiceId

SpecResolve == InitResolve /\ [][NextResolve]_vars

(***************************************************************************)
(* Spec: the pipeline on every podcast script of at most MaxScriptTurns    *)
(* turns, each spoken by the host or the cohost and either short or just   *)
(* over CHUNK_LIMIT characters (two sentences, hence two chunks), with a   *)
(* model that takes context and with eleven_v3, which does not.  The       *)
(* service answers a call with or without a request id or fails, ffmpeg    *)
(* succeeds or fails, and a chunk file can vanish before it is unlinked.   *)
(***************************************************************************)
SentenceOf(n, letter) == [i \in 1..n |-> IF i = n THEN "." ELSE letter]
\* the text of the turn at position j (from 0)
ShortText(j) == <<Letters[(j % Len(Letters)) + 1], "i", ".">>
LongText(j) ==
    SentenceOf(CHUNK_LIMIT \div 2 + 1, Letters[(j % Len(Letters)) + 1])
        \o <<" ">> \o SentenceOf(CHUNK_LIMIT \div 2, "x")

PipelineScripts ==
    {[format |-> "podcast",
      segments |-> [k \in 1..n |->
                      [index |-> k - 1, speaker |-> sp[k],
                       text |-> IF long[k] THEN LongText(k - 1) ELSE ShortText(k - 1)]]] :
        <<n, sp, long>> \in
            UNION {{<<m, f, g>> : f \in [1..m -> {"host", "cohost"}], g \in [1..m -> BOOLEAN]} :
                   m \in 0..MaxScriptTurns}}

Init ==
    /\ script \in PipelineScripts
    /\ config \in {NewsroomConfig, [NewsroomConfig EXCEPT !.model = "eleven_multilingual_v2"]}
    /\ pc = "for_seg"
    /\ audio_files = <<>>
    /\ fs = <<>>
    /\ ffmpeg_runs = <<>>
    /\ error = ""
    /\ IdleGenerate
    /\ IdleResolve
    /\ IdleParse
    /\ IdleChunk
    /\ IdleAdjacent

Next ==
    \/ NextSegment
    \/ SynthesizeChunk
    \/ SynthesizeChunkFails
    \/ FinalizeSingle
    \/ MergeChunks
    \/ ChunkFileVanishes
    \/ FinalizeMerged
    \/ FinalizeMergeFails
    \/ ReturnResults
    \/ ConcatFinal

Spec == Init /\ [][Next]_vars

\* the chunks the call returned (defined once it has returned)
Returned == split_result # <<>>
Chunks == split_result[1]

(***************************************************************************)
(* Claims about split_into_chunks, checked under SpecChunk.                *)
(***************************************************************************)
HasTerminator(s) == \E i \in 1..Len(s) : s[i] \in Terminators
AllWhitespace(s) == \A i \in 1..Len(s) : s[i] \in Whitespace
IsPrefix(p, s) == Len(p) <= Len(s) /\ SubSeq(s, 1, Len(p)) = p
\* sub occurs in s as a contiguous substring
Contains(s, sub) ==
    \E k \in 0..(Len(s) - Len(sub)) : SubSeq(s, k + 1, k + Len(sub)) = sub

\* C1: a text longer than limit with no sentence terminator gives exactly one
\* chunk, the first `limit` characters of the text.
C1_NoTerminatorTruncated ==
    (Returned /\ Len(split_text) > split_limit /\ ~HasTerminator(split_text))
        => Chunks = <<FirstN(split_text, split_limit)>>

\* C2: for a text longer than limit every chunk is at most limit plus a fixed
\* margin long, unless the result is the forced fallback: one chunk of
\* length limit.
C2_ChunksWithinMargin ==
    (Returned /\ Len(split_text) > split_limit)
        => \/ \A i \in 1..Len(Chunks) : Len(Chunks[i]) <= split_limit + TrimMargin
           \/ Len(Chunks) = 1 /\ Len(Chunks[1]) = split_limit

\* C3: a text of length at most limit (the empty text and a text without
\* terminators included) gives exactly one chunk, the text unchanged.
C3_ShortTextUnchanged ==
    (Returned /\ Len(split_text) <= split_limit) => Chunks = <<split_text>>

\* a short text that stripping would change went through the call
C3_Witness ==
    /\ Returned
    /\ Len(split_text) <= split_limit
    /\ Strip(split_text) # split_text
    /\ ~HasTerminator(split_text)

\* t is the chunks cs in order, each once, separated and surrounded by
\* whitespace only
RECURSIVE Covers(_, _)
Covers(t, cs) ==
    IF cs = <<>> THEN AllWhitespace(t)
    ELSE \E k \in 0..Len(t) :
            /\ AllWhitespace(SubSeq(t, 1, k))
            /\ IsPrefix(cs[1], SubSeq(t, k + 1, Len(t)))
            /\ Covers(SubSeq(t, k + 1 + Len(cs[1]), Len(t)), Tail(cs))

\* C4: the chunks in order are the input text with nothing but whitespace
\* removed, and that only before, between and after the chunks: no sentence
\* is dropped, duplicated or reordered.
C4_ChunksCoverText == Returned => Covers(split_text, Chunks)

\* a text of several sentences was split into several chunks, whitespace
\* being removed at a boundary
C4_Witness ==
    /\ Returned
    /\ Len(Chunks) >= 3
    /\ Len(_split_sentences(split_text)) >= 3
    /\ \E i \in 1..Len(split_text) : split_text[i] \in Whitespace

\* the markup substrings of s: from a "[" to the first "]" after it
Markups(s) ==
    {SubSeq(s, i, j) : <<i, j>> \in
        {p \in (1..Len(s)) \X (1..Len(s)) :
            /\ p[1] < p[2]
            /\ s[p[1]] = "[" /\ s[p[2]] = "]"
            /\ \A k \in (p[1] + 1)..(p[2] - 1) : s[k] \notin {"[", "]"}}}

\* C5: every markup substring [...] of the input is whole inside a returned
\* chunk, also when it contains a terminator or a blank.
C5_MarkupWhole ==
    Returned => \A m \in Markups(split_text) :
                    \E i \in 1..Len(Chunks) : Contains(Chunks[i], m)

\* C16: when split_into_chunks returns more than one chunk, every chunk but
\* the last ends with a sentence terminator.
C16_BoundaryAfterTerminator ==
    (Returned /\ Len(Chunks) > 1) =>
        \A i \in 1..(Len(Chunks) - 1) :
            Chunks[i] # <<>> /\ Chunks[i][Len(Chunks[i])] \in Terminators

\* three chunks, of a text with a blank after a terminator and one whose
\* last unit has no terminator
C16_Witness ==
    /\ Returned
    /\ Len(Chunks) = 3
    /\ split_text[Len(split_text)] \notin Terminators
    /\ \E i \in 2..Len(split_text) : split_text[i] = " " /\ split_text[i - 1] \in Terminators


(***************************************************************************)
(* Claims about _get_adjacent_text, checked under SpecAdjacent.            *)
(***************************************************************************)
AdjReturned == adj_result # <<>>
\* the positions (from 0) of the same-voice turns at distance 1..3 before
\* and after idx
SameVoice(j) == resolve_voice_id(script.segments[j + 1].speaker, "", config) = adj_voice
Before == {j \in 0..(Len(script.segments) - 1) : adj_idx - 3 <= j /\ j <= adj_idx - 1 /\ SameVoice(j)}
After == {j \in 0..(Len(script.segments) - 1) : adj_idx + 1 <= j /\ j <= adj_idx + 3 /\ SameVoice(j)}
Greatest(S) == CHOOSE j \in S : \A k \in S : k <= j
Smallest(S) == CHOOSE j \in S : \A k \in S : j <= k
TextAt(j) == script.segments[j + 1].text

\* C6: the previous text is the last min(200, len) characters of the nearest
\* same-voice turn at distance 1..3 before idx, the next text the first
\* min(200, len) characters of the nearest same-voice turn at distance 1..3
\* after idx, and a side without such a turn is empty.
C6_AdjacentText ==
    AdjReturned =>
        /\ adj_result[1] =
             IF Before = {} THEN <<>>
             ELSE LET t == TextAt(Greatest(Before))
                      n == Min2(200, Len(t))
                  IN [i \in 1..n |-> t[Len(t) - n + i]]
        /\ adj_result[2] =
             IF After = {} THEN <<>>
             ELSE LET t == TextAt(Smallest(After))
                      n == Min2(200, Len(t))
                  IN [i \in 1..n |-> t[i]]

\* the call skipped a different-voice turn to reach a turn of more than 200
\* characters before idx, and found no turn after idx although a same-voice
\* turn stands at distance 4
C6_Witness ==
    /\ AdjReturned
    /\ Before # {} /\ Greatest(Before) < adj_idx - 1
    /\ Len(TextAt(Greatest(Before))) > 200
    /\ Len(adj_result[1]) = 200
    /\ After = {} /\ adj_result[2] = <<>>
    /\ adj_idx + 4 < Len(script.segments) /\ SameVoice(adj_idx + 4)

(***************************************************************************)
(* Claims about concat_final, checked under SpecConcat.                    *)
(***************************************************************************)
ConcatReturned == pc \in {"done", "failed"}
Artifacts == {audio_files[k] : k \in 1..Len(audio_files)}
\* concat_final creates no audio file, so an artifact's file exists after the
\* call exactly when it existed before it
Present == {a \in Artifacts : a.file_path \in DOMAIN fs}
\* the paths of the artifacts of S by ascending segment_index
Ascending(S) ==
    [k \in 1..Cardinality(S) |->
        (CHOOSE a \in S :
            Cardinality({b \in S : b.segment_index < a.segment_index}) = k - 1).file_path]

\* C8: when every file exists, concat_final hands the files to ffmpeg in
\* ascending segment_index order, whatever the order of the input list, and
\* a successful run writes their contents in that order.
C8_AscendingOrder ==
    (ConcatReturned /\ Artifacts # {} /\ Present = Artifacts) =>
        /\ Len(ffmpeg_runs) = 1
        /\ ffmpeg_runs[1].inputs = Ascending(Artifacts)
        /\ ffmpeg_runs[1].output = FinalPath
        /\ ffmpeg_runs[1].ok => fs[FinalPath] = Ascending(Artifacts)

\* three artifacts given in the order 2, 0, 1 were merged
C8_Witness ==
    /\ pc = "done"
    /\ Len(audio_files) = 3
    /\ [k \in 1..3 |-> audio_files[k].segment_index] = <<2, 0, 1>>
    /\ Present = Artifacts

\* C9: when no file of the list exists (the empty list included), concat_final
\* fails with the empty-input error, which is neither the error of a failed
\* ffmpeg run nor a synthesis error, and has written no manifest, run no
\* ffmpeg and created no output file.
C9_EmptyInputError ==
    (ConcatReturned /\ Present = {}) =>
        /\ pc = "failed"
        /\ error = NoAudioFiles
        /\ error # CalledProcessError
        /\ ffmpeg_runs = <<>>
        /\ FinalManifestPath \notin DOMAIN fs
        /\ FinalPath \notin DOMAIN fs

\* a list of two artifacts, both files missing, was rejected
C9_Witness ==
    /\ pc = "failed"
    /\ Len(audio_files) = 2
    /\ Present = {}

\* C10: when some but not all files are missing, concat_final does not raise
\* the empty-input error: it hands exactly the existing files, each once and
\* in ascending segment_index order, to ffmpeg, and it fails only if that
\* run fails.
C10_MissingExcluded ==
    (ConcatReturned /\ Present # {} /\ Present # Artifacts) =>
        /\ error # NoAudioFiles
        /\ Len(ffmpeg_runs) = 1
        /\ ffmpeg_runs[1].inputs = Ascending(Present)
        /\ fs[FinalManifestPath] = Ascending(Present)
        /\ pc = "done" <=> ffmpeg_runs[1].ok
        /\ pc = "done" => error = "" /\ fs[FinalPath] = Ascending(Present)

\* of three artifacts given out of order the middle one was missing, and the
\* other two were merged
C10_Witness ==
    /\ pc = "done"
    /\ [k \in 1..Len(audio_files) |-> audio_files[k].segment_index] = <<2, 1, 0>>
    /\ {a.segment_index : a \in Present} = {0, 2}

(***************************************************************************)
(* Claims about resolve_voice_id, checked under SpecResolve.               *)
(***************************************************************************)
Resolved == resolve_result # <<>>

\* C21: for every speaker and every format of VOICE_MAP the voice a turn is
\* synthesized with, resolve_voice_id(role, format, config), is the voice it
\* is matched by for context, resolve_voice_id(role, "", config); so a
\* candidate turn is taken as same-voice exactly when its requests use the
\* voice id of the turn being synthesized.
C21_ContextVoiceIsRequestVoice ==
    Resolved =>
        /\ resolve_result[1].voice_id = resolve_voice_id(resolve_role, "", config)
        /\ resolve_result[1].other_voice_id = resolve_voice_id(resolve_other, "", config)
        /\ resolve_result[1].matched <=>
              (resolve_result[1].other_voice_id = resolve_result[1].voice_id)

\* a label that goes through lower() and the aliases to a role of the
\* format, matched by a turn of that role, with a voice that is not the
\* fallback voice
C21_Witness ==
    /\ Resolved
    /\ resolve_role = "Co-Host" /\ resolve_other = "cohost"
    /\ script.format = "podcast"
    /\ resolve_result[1].matched
    /\ resolve_result[1].voice_id = config.voices.cohost
    /\ resolve_result[1].voice_id # config.voices.anchor

(***************************************************************************)
(* Claims about parse_script, checked under SpecParse.                     *)
(***************************************************************************)
Parsed == pc = "parsed"
\* the lines of the raw script: the texts between its newlines
LineCount(text) == Cardinality({i \in 1..Len(text) : text[i] = "\n"}) + 1

\* C14: the segments parse_script returns have the index values 0..N-1, the
\* segment at list position k having index k; a line that does not match and
\* a match whose text is blank add no segment and use up no index.
C14_IndexIsPosition ==
    Parsed =>
        /\ \A k \in 1..Len(script.segments) : script.segments[k].index = k - 1
        /\ Len(script.segments) <= LineCount(raw_script)

\* two segments from a script that also has a line that does not match and,
\* at its end, a label whose text is blank
C14_Witness ==
    /\ Parsed
    /\ Len(script.segments) = 2
    /\ LineCount(raw_script) >= 4
    /\ _LINE_RE_match(raw_script, 1) = None
    /\ \E pos \in 2..Len(raw_script) :
          /\ raw_script[pos - 1] = "\n"
          /\ _LINE_RE_match(raw_script, pos) # None
          /\ Strip(_LINE_RE_match(raw_script, pos)[1].text) = <<>>

(***************************************************************************)
(* Claims about generate_audio, checked under Spec.                        *)
(***************************************************************************)
\* the request ids the successful synthesis calls for voice v returned, in
\* the order of the calls
RecordedIds(v) ==
    LET returned == SelectSeq(calls, LAMBDA c : c.ok /\ c.voice_id = v /\ c.request_id # "")
    IN [k \in 1..Len(returned) |-> returned[k].request_id]

\* C7: in every state of generate_audio the history kept for a voice,
\* voice_request_ids[voice], holds at most 3 request ids: the most recently
\* recorded ones in record order, the oldest dropped first.
C7_HistoryAtMost3 ==
    \A v \in DOMAIN voice_request_ids :
        /\ Len(voice_request_ids[v]) <= 3
        /\ voice_request_ids[v] =
             SubSeq(RecordedIds(v), Max2(1, Len(RecordedIds(v)) - 2), Len(RecordedIds(v)))

\* the calls made for the turn at position p, in call order
CallsOf(p) == SelectSeq(calls, LAMBDA c : c.pos = p)
\* call a is for an earlier chunk than call b, in (position, chunk index) order
Precedes(a, b) == a.pos < b.pos \/ (a.pos = b.pos /\ a.ci < b.ci)

\* C11: synthesis requests are issued once per chunk in strictly increasing
\* (turn position, chunk index) order, whoever speaks; the chunks of a turn
\* are requested from 0 on without a gap; a request for a turn is issued
\* only when every earlier turn is finalized, that is has all its chunks
\* requested and its artifact recorded.
C11_SequentialRequests ==
    /\ \A i, j \in 1..Len(calls) : i < j => Precedes(calls[i], calls[j])
    /\ \A i \in 1..Len(calls) :
          /\ calls[i].pos <= Len(results)
          /\ calls[i].ci + 1 = Len(SelectSeq(SubSeq(calls, 1, i), LAMBDA c : c.pos = calls[i].pos))
    /\ \A p \in 0..(Len(results) - 1) :
          /\ results[p + 1].segment_index = script.segments[p + 1].index
          /\ Len(CallsOf(p)) = CallsOf(p)[1].of

\* two turns of different speakers, the first of two chunks, all requested
C11_Witness ==
    /\ Len(calls) = 3
    /\ calls[1].pos = 0 /\ calls[2].pos = 0 /\ calls[3].pos = 1
    /\ calls[1].voice_id # calls[3].voice_id
    /\ Len(results) = 2

\* generate_audio has failed: the run ended before `return results`
FailedInGenerate == pc = "failed" /\ seg_pos < Len(script.segments)

\* C12: once a synthesis call has failed it is the last call ever made (no
\* retry, no later chunk or turn), the run has failed with the error of the
\* call, no artifact list was returned, the failing turn has no artifact and
\* final assembly never started.
C12_FailureStopsPipeline ==
    \A i \in 1..Len(calls) :
        ~calls[i].ok =>
            /\ i = Len(calls)
            /\ pc = "failed" /\ error = ApiError
            /\ audio_files = <<>>
            /\ Len(results) = calls[i].pos
            /\ \A k \in 1..Len(ffmpeg_runs) : ffmpeg_runs[k].output # FinalPath
            /\ ~Exists(fs, FinalManifestPath) /\ ~Exists(fs, FinalPath)

\* the second chunk of the second turn fails after three calls went well
C12_Witness ==
    /\ Len(calls) = 4
    /\ ~calls[4].ok /\ calls[4].pos = 1 /\ calls[4].ci = 1
    /\ calls[1].ok /\ calls[2].ok /\ calls[3].ok

\* C13: with the model eleven_v3 every request handed to the service has no
\* previous text, no next text and no previous request ids, whatever the
\* pipeline computed for it.
C13_NoContextForV3 ==
    (config.model = "eleven_v3" /\ request # <<>>) =>
        /\ request.previous_text = None
        /\ request.next_text = None
        /\ request.previous_request_ids = None

\* a request of eleven_v3 for which a previous text and previous ids were computed
C13_Witness ==
    /\ config.model = "eleven_v3"
    /\ request # <<>>
    /\ calls # <<>> /\ calls[Len(calls)].pos = 1 /\ seg_pos = 1
    /\ prev_text # <<>>
    /\ prev_ids # <<>>

\* the request ids recorded for voice v by the calls before call n
IdsBefore(v, n) ==
    LET returned == SelectSeq(SubSeq(calls, 1, n - 1),
                              LAMBDA c : c.ok /\ c.voice_id = v /\ c.request_id # "")
    IN [k \in 1..Len(returned) |-> returned[k].request_id]

\* an optional argument as a text or list: None is the empty one
ValueOf(opt) == IF opt = None THEN <<>> ELSE opt[1]

\* C15: with a model that takes context, the previous request ids of every
\* synthesis call are the last at most 3 ids recorded for its voice by the
\* calls completed before it, those for earlier chunks of its turn included.
C15_HistoryReadPerCall ==
    (config.model # "eleven_v3" /\ calls # <<>>) =>
        ValueOf(request.previous_request_ids) =
            LastN(IdsBefore(request.voice_id, Len(calls)), STITCH_IDS)

\* the file of the turn at position p, named by zero-padded index and
\* speaker (the indices of the scripts of Spec are below 10)
TurnFile(p) ==
    "audio/00" \o ToString(script.segments[p + 1].index) \o "_"
        \o script.segments[p + 1].speaker \o ".mp3"
\* the chunk files of the turn at position p, in chunk index order
ChunkFilesOf(p) ==
    [c \in 1..CallsOf(p)[1].of |->
        "audio/00" \o ToString(script.segments[p + 1].index) \o "_"
            \o script.segments[p + 1].speaker \o "_chunk" \o ToString(c - 1) \o ".mp3"]
\* the ffmpeg invocations that had `path` as output
RunsFor(path) == SelectSeq(ffmpeg_runs, LAMBDA r : r.output = path)
\* the audio the service returned for the chunks of the turn at position p,
\* in chunk index order
AudioOf(p) ==
    LET numbers == SelectSeq([i \in 1..Len(calls) |-> i], LAMBDA i : calls[i].pos = p)
    IN [k \in 1..Len(numbers) |-> "tts" \o ToString(numbers[k])]

\* the artifact of every finalized turn, its file and the concatenations made for it
Finalized ==
    \A p \in 0..(Len(results) - 1) :
        /\ results[p + 1].file_path = TurnFile(p)
        /\ Exists(fs, TurnFile(p))
        /\ fs[TurnFile(p)] = AudioOf(p)
        /\ CallsOf(p)[1].of = 1 => RunsFor(TurnFile(p)) = <<>>
        /\ CallsOf(p)[1].of > 1 =>
              /\ RunsFor(TurnFile(p)) =
                    <<[inputs |-> ChunkFilesOf(p), output |-> TurnFile(p), ok |-> TRUE]>>
              /\ \A c \in 1..Len(ChunkFilesOf(p)) : ~Exists(fs, ChunkFilesOf(p)[c])

\* C17: a finalized turn of one chunk has had no concatenation and its
\* artifact is the file its synthesis wrote, named by index and speaker; a
\* finalized turn of k > 1 chunks has had exactly one concatenation, of its k
\* chunk files in chunk index order into the file named after the turn, and
\* none of its chunk files exists any more; the deletion of the chunk files
\* always ends in the turn being finalized, a chunk file already missing
\* included.
C17_TurnFinalization ==
    /\ []Finalized
    /\ [][(pc = "unlink_chunks" /\ pc' # pc) =>
             (pc' = "for_seg" /\ error' = "" /\ Len(results') = Len(results) + 1)]_vars

\* a turn of two chunks and a turn of one chunk, both finalized
C17_Witness ==
    /\ Len(results) = 2
    /\ CallsOf(0)[1].of = 2
    /\ CallsOf(1)[1].of = 1
    /\ pc = "for_seg"

\* the latest call was made for the turn generate_audio is still in
InTurnOfLatestCall == calls # <<>> /\ calls[Len(calls)].pos = seg_pos
\* the context of the turn of the latest call
TurnContext ==
    _get_adjacent_text(script.segments, script.segments[seg_pos + 1].index,
                       request.voice_id, config)

\* C18: with a model that takes context, the request for chunk i of a turn
\* of n chunks has as previous text the last at most 200 characters of chunk
\* i-1 when i > 0 and the previous text of the turn otherwise, as next text
\* the first at most 200 characters of chunk i+1 when i < n-1 and the next
\* text of the turn otherwise.
C18_ChunkContext ==
    (config.model # "eleven_v3" /\ InTurnOfLatestCall) =>
        LET i == calls[Len(calls)].ci
            n == Len(chunks)
        IN /\ request.text = chunks[i + 1]
           /\ ValueOf(request.previous_text) =
                 IF i > 0 THEN LastN(chunks[i], CONTEXT_CHARS) ELSE TurnContext[1]
           /\ ValueOf(request.next_text) =
                 IF i < n - 1 THEN FirstN(chunks[i + 2], CONTEXT_CHARS) ELSE TurnContext[2]

\* the request for the last of two chunks, of a turn that has a next text
C18_Witness ==
    /\ config.model # "eleven_v3"
    /\ InTurnOfLatestCall
    /\ calls[Len(calls)].ci = 1 /\ Len(chunks) = 2
    /\ Len(chunks[1]) > CONTEXT_CHARS
    /\ TurnContext[2] # <<>>

\* the request ids the calls for the turn at position p returned
IdsOfTurn(p) ==
    LET returned == SelectSeq(calls, LAMBDA c : c.ok /\ c.pos = p /\ c.request_id # "")
    IN [k \in 1..Len(returned) |-> returned[k].request_id]

\* C19: the request id of the artifact of a turn is the last request id a
\* chunk synthesis of that turn returned, and empty when none returned one.
C19_ArtifactIdOfTurn ==
    \A p \in 0..(Len(results) - 1) :
        results[p + 1].request_id =
            IF IdsOfTurn(p) = <<>> THEN "" ELSE IdsOfTurn(p)[Len(IdsOfTurn(p))]

\* what a failure in generate_audio leaves of the earlier turns and of the
\* history: every finalized turn file with its audio, no artifact for the
\* failing turn, and after a failed synthesis call no file of the failing
\* chunk and no id added to a history
ProgressKept ==
    /\ \A p \in 0..(Len(results) - 1) :
          Exists(fs, TurnFile(p)) /\ fs[TurnFile(p)] = AudioOf(p)
    /\ Len(results) = seg_pos
    /\ error = ApiError =>
          /\ ~Exists(fs, OutPath)
          /\ \A v \in DOMAIN voice_request_ids : voice_request_ids[v] = RecordedIds(v)

\* C20 as stated: after a failed synthesis or a failed concatenation of a
\* turn the earlier turn files are kept, the failed call wrote nothing and
\* recorded nothing, and no file with the name of the failing turn's
\* artifact is left.
C20_NoFileOfFailingTurn ==
    FailedInGenerate => (ProgressKept /\ ~Exists(fs, TurnFile(seg_pos)))

\* C20 amended: after a failed synthesis or a failed concatenation of a turn
\* the earlier turn files are kept, the failed call wrote nothing and
\* recorded nothing, and the failing turn has no artifact; a failed
\* concatenation can leave a file with the name of the turn's artifact.
C20_FailureKeepsProgress == FailedInGenerate => ProgressKept

\* the concatenation of the second turn failed and left a file under its name
C20_Witness ==
    /\ FailedInGenerate
    /\ error = CalledProcessError
    /\ seg_pos = 1
    /\ Exists(fs, TurnFile(1))

====
